---- MODULE Spec2Model ----
(***************************************************************************)
(* Model of main.py, the Streamlit dashboard over the NYC collision        *)
(* dataset: the cached loader (load_data), the script body that is run     *)
(* top to bottom on every widget interaction, and the queries and          *)
(* aggregations it computes.                                               *)
(*                                                                         *)
(* A cell of a data frame is <<>> when it is missing (NaN / NaT / None)    *)
(* and <<v>> when it holds v.  A row of a frame is [idx |-> the pandas     *)
(* index label, c |-> the cells by column name]; a frame is a record with  *)
(* its column names, its rows in order and the dtype of the merged         *)
(* timestamp column.                                                       *)
(***************************************************************************)
EXTENDS Integers, Sequences, FiniteSets, TLC

VARIABLES
    file,       \* the file at DATA_URL: [ok, columns, rows]
    build,      \* behaviours of the installed pandas/numpy the script runs on
    cache,      \* the st.cache_resource entry of load_data: <<>> or <<frame>>
    reads,      \* how many times pd.read_csv has read the file
    widgets,    \* the session's widget values
    started,    \* whether the session has run the script at least once
    outputs,    \* what the last script run wrote to the page
    firstTable, \* history: the frame the first successful load returned
    probe,      \* history: the first run's widget values and views
    qin,        \* query harness: the frame and arguments of the call
    qout        \* query harness: the result of the call

vars == <<file, build, cache, reads, widgets, started, outputs, firstTable,
          probe, qin, qout>>

(***************************************************************************)
(* Bounds of the model and constants of the program.                       *)
(***************************************************************************)
MaxFileRows == 2
MaxQueryRows == 6
MaxFilterRows == 3

SliderInjuredMin == 0
SliderInjuredMax == 19
SliderHourMin == 0
SliderHourMax == 23
HistBins == 60
HistLo == 0
HistHi == 60
TopStreetsN == 5
TopFactorsN == 20
TopVehiclesN == 10

DATA_URL == "dataset.csv"
DATE_TIME == "date_time"

(***************************************************************************)
(* Cells and small helpers.                                                *)
(***************************************************************************)
Missing == <<>>
Some(v) == <<v>>
IsNA(cell) == Len(cell) = 0
NotNA(cell) == Len(cell) = 1
Val(cell) == cell[1]

Range(s) == {s[i] : i \in DOMAIN s}

RECURSIVE SumSeq(_)
SumSeq(s) == IF s = <<>> THEN 0 ELSE Head(s) + SumSeq(Tail(s))

Min2(a, b) == IF a <= b THEN a ELSE b

\* s[:n]
HeadN(s, n) == SubSeq(s, 1, Min2(n, Len(s)))

\* the sequences over S of length at most n
SeqsUpTo(S, n) == UNION {[1..k -> S] : k \in 0..n}

\* the values of a sequence of cells none of which is missing
Values(cells) == [i \in DOMAIN cells |-> Val(cells[i])]

(***************************************************************************)
(* Frames.                                                                 *)
(***************************************************************************)
Cell(row, col) == row.c[col]

\* df[col]: the cells of a column, in row order
Column(rows, col) == [i \in DOMAIN rows |-> Cell(rows[i], col)]

Frame(columns, rows, dt_dtype) ==
    [columns |-> columns, rows |-> rows, dt_dtype |-> dt_dtype]

\* a result of an expression that may raise: err = "" when it did not
Ok(v) == [err |-> "", val |-> v]
Raise(e) == [err |-> e, val |-> <<>>]

(***************************************************************************)
(* load_data, lines 11-18.                                                 *)
(***************************************************************************)
\* the columns of dataset.csv the script reads, by the names it reads them
RawColumns ==
    {"crash_date", "crash_time", "latitude", "longitude", "injured_persons",
     "number_of_pedestrians_injured", "number_of_cyclist_injured",
     "number_of_motorist_injured", "number_of_persons_killed", "borough",
     "on_street_name", "contributing_factor_vehicle_1",
     "contributing_factor_vehicle_2", "vehicle_type_code_1",
     "vehicle_type_code_2"}

\* pandas names the column merged from crash_date and crash_time
MergedName == "crash_date_crash_time"

\* the text "<date> <time>" parses as a timestamp iff both parts are there
ParsesAsDate(raw) == NotNA(raw["crash_date"]) /\ NotNA(raw["crash_time"])

Timestamp(raw) ==
    Some([date |-> Val(raw["crash_date"]),
          hour |-> Val(raw["crash_time"]).hour,
          minute |-> Val(raw["crash_time"]).minute])

\* the text of the two cells joined, kept when the column stays of dtype object
DateText(raw) == Some([text |-> <<raw["crash_date"], raw["crash_time"]>>])

\* read_csv(parse_dates=[['crash_date', 'crash_time']]): the two columns are
\* replaced by one.  When every row parses the column is datetime64.  When a
\* row does not, the outcome depends on the parser: either that row becomes
\* NaT, or the whole column is left as text (dtype object).
DateDtype(rawRows, b) ==
    IF \A i \in DOMAIN rawRows : ParsesAsDate(rawRows[i]) THEN "datetime64"
    ELSE IF b.dateFallback = "NaT" THEN "datetime64" ELSE "object"

MergeDates(raw, dtype) ==
    LET cell == IF dtype = "object" THEN DateText(raw)
                ELSE IF ParsesAsDate(raw) THEN Timestamp(raw) ELSE Missing
    IN [col \in (DOMAIN raw \ {"crash_date", "crash_time"}) \cup {MergedName}
            |-> IF col = MergedName THEN cell ELSE raw[col]]

read_csv(f, b) ==
    IF ~f.ok THEN Raise("LoadError")
    ELSE LET dtype == DateDtype(f.rows, b)
         IN Ok(Frame((f.columns \ {"crash_date", "crash_time"}) \cup {MergedName},
                     [i \in DOMAIN f.rows |->
                         [idx |-> i - 1, c |-> MergeDates(f.rows[i], dtype)]],
                     dtype))

\* DataFrame.dropna(subset=cols): the rows with none of cols missing, in order
dropna(rows, cols) ==
    SelectSeq(rows, LAMBDA r : \A col \in cols : NotNA(Cell(r, col)))

\* a faulty variant: a loader that drops on the latitude alone
DropNaCoords_latOnly(df) == [df EXCEPT !.rows = dropna(df.rows, {"latitude"})]

\* data.dropna(subset=['latitude', 'longitude'], inplace=True), line 14
DropNaCoords(df) ==
    [df EXCEPT !.rows = dropna(df.rows, {"latitude", "longitude"})]

\* str(x).lower(), line 15, on the column names the file can hold
lowercase(x) ==
    CASE x = "BOROUGH" -> "borough"
      [] x = "ON_STREET_NAME" -> "on_street_name"
      [] OTHER -> x

\* DataFrame.rename: every column col renamed to f[col], cells kept
RenameColumns(df, f) ==
    [df EXCEPT
        !.columns = {f[col] : col \in df.columns},
        !.rows = [i \in DOMAIN df.rows |->
                    [df.rows[i] EXCEPT !.c =
                        [col \in {f[k] : k \in DOMAIN df.rows[i].c} |->
                            df.rows[i].c[CHOOSE k \in DOMAIN df.rows[i].c :
                                            f[k] = col]]]]]

\* data.rename(lowercase, axis='columns', inplace=True), line 16
RenameLower(df) == RenameColumns(df, [col \in df.columns |-> lowercase(col)])

\* data.rename(columns={"crash_date_crash_time": DATE_TIME}, inplace=True), line 17
RenameDate(df) ==
    RenameColumns(df, [col \in df.columns |->
                          IF col = MergedName THEN DATE_TIME ELSE col])

\* the body of load_data
after_read(r) ==
    IF r.err # "" THEN r
    ELSE Ok(RenameDate(RenameLower(DropNaCoords(r.val))))

load_data_body(f, b) == after_read(read_csv(f, b))

\* @st.cache_resource: the body runs on a miss and its return value is stored;
\* a hit returns the stored object itself (no copy); an exception is not stored
store(r, c, f, n) ==
    [err |-> r.err, data |-> r.val, hit |-> FALSE,
     cache |-> IF r.err = "" THEN Some(r.val) ELSE c,
     reads |-> IF f.ok THEN n + 1 ELSE n]

\* a faulty variant: a loader that runs its body on every call
load_data_uncached(c, f, b, n) == store(load_data_body(f, b), c, f, n)

load_data(c, f, b, n) ==
    IF NotNA(c)
    THEN [err |-> "", data |-> Val(c), hit |-> TRUE, cache |-> c, reads |-> n]
    ELSE store(load_data_body(f, b), c, f, n)

(***************************************************************************)
(* Library operations the script body uses.                                *)
(***************************************************************************)
\* DataFrame.query("<col> >= <t>"): a missing cell compares false
query_ge(rows, col, t) ==
    SelectSeq(rows, LAMBDA r : NotNA(Cell(r, col)) /\ Val(Cell(r, col)) >= t)

\* df[[cols]]
project(rows, cols) ==
    [i \in DOMAIN rows |->
        [rows[i] EXCEPT !.c = [col \in cols |-> rows[i].c[col]]]]

\* the order sort_values(ascending=False) puts two entries <<position, key>>
\* in: larger key first.  The default kind is quicksort, which is not stable:
\* the order of equal keys is what the installed numpy produces.
Before(a, b, b_) ==
    \/ a[2] > b[2]
    \/ a[2] = b[2] /\ (IF b_.sortTies = "original" THEN a[1] < b[1]
                       ELSE a[1] > b[1])

RECURSIVE InsertSorted(_, _, _)
InsertSorted(x, s, b) ==
    IF s = <<>> THEN <<x>>
    ELSE IF Before(x, Head(s), b) THEN <<x>> \o s
    ELSE <<Head(s)>> \o InsertSorted(x, Tail(s), b)

RECURSIVE SortPairs(_, _)
SortPairs(ps, b) ==
    IF ps = <<>> THEN <<>> ELSE InsertSorted(Head(ps), SortPairs(Tail(ps), b), b)

Firsts(ps) == [i \in DOMAIN ps |-> ps[i][1]]

\* the positions of keys in the order of a descending sort
argsort_desc(keys, b) ==
    Firsts(SortPairs([i \in DOMAIN keys |-> <<i, keys[i]>>], b))

\* s[order[1]], s[order[2]], ...
Take(s, order) == [i \in DOMAIN order |-> s[order[i]]]

\* DataFrame.sort_values(by=col, ascending=False); col has no missing cell
sort_values_desc(rows, col, b) ==
    Take(rows, argsort_desc([i \in DOMAIN rows |-> Val(Cell(rows[i], col))], b))

\* the distinct members of a sequence in the order of their first appearance
RECURSIVE Uniques(_)
Uniques(s) ==
    IF s = <<>> THEN <<>>
    ELSE LET u == Uniques(SubSeq(s, 1, Len(s) - 1))
         IN IF s[Len(s)] \in Range(u) THEN u ELSE Append(u, s[Len(s)])

Count(s, v) == Cardinality({i \in DOMAIN s : s[i] = v})

\* Series.value_counts(): missing cells dropped, one entry per distinct value
\* with its count, sorted by count descending
CountEach(vals, keys) ==
    [i \in DOMAIN keys |-> [value |-> keys[i], count |-> Count(vals, keys[i])]]

SortCounts(entries, b) ==
    Take(entries, argsort_desc([i \in DOMAIN entries |-> entries[i].count], b))

value_counts(cells, b) ==
    SortCounts(CountEach(Values(SelectSeq(cells, NotNA)),
                         Uniques(Values(SelectSeq(cells, NotNA)))), b)

\* DataFrame[cols].stack(): the cells row by row, in column order, missing dropped
RECURSIVE stack(_, _)
stack(rows, cols) ==
    IF rows = <<>> THEN <<>>
    ELSE SelectSeq([i \in DOMAIN cols |-> Cell(Head(rows), cols[i])], NotNA)
         \o stack(Tail(rows), cols)

\* np.histogram(values, bins=n, range=(lo, hi))[0]: n equal-width bins over
\* [lo, hi], the last one closed; values outside the range are not counted
BinOf(v, n, lo, hi) == IF v = hi THEN n - 1 ELSE ((v - lo) * n) \div (hi - lo)

RECURSIVE CountInto(_, _, _, _, _)
CountInto(counts, values, n, lo, hi) ==
    IF values = <<>> THEN counts
    ELSE CountInto(IF Head(values) >= lo /\ Head(values) <= hi
                   THEN [counts EXCEPT ![BinOf(Head(values), n, lo, hi) + 1] = @ + 1]
                   ELSE counts,
                   Tail(values), n, lo, hi)

histogram(values, n, lo, hi) == CountInto([k \in 1..n |-> 0], values, n, lo, hi)

\* np.average(series): <<sum, count>>; nan when the series is empty or holds
\* a missing cell
average(cells) ==
    IF cells = <<>> \/ \E i \in DOMAIN cells : IsNA(cells[i]) THEN Missing
    ELSE Some(<<SumSeq(Values(cells)), Len(cells)>>)

(***************************************************************************)
(* The query layer, lines 29-82.                                           *)
(***************************************************************************)
\* a faulty variant: a filter that compares with > in place of >=
filterByMinInjured_gt(df, t) ==
    SelectSeq(df.rows, LAMBDA r : NotNA(Cell(r, "injured_persons"))
                                  /\ Val(Cell(r, "injured_persons")) > t)

\* data.query("injured_persons >= @injured_people"), line 30
filterByMinInjured(df, t) == query_ge(df.rows, "injured_persons", t)

\* ...[['latitude', 'longitude']].dropna(how="any"), line 30
injured_map(df, t) ==
    dropna(project(filterByMinInjured(df, t), {"latitude", "longitude"}),
           {"latitude", "longitude"})

\* a faulty variant: a filter that keeps the hours up to hour
filterByHour_upTo(df, hour) ==
    IF df.dt_dtype # "datetime64" THEN Raise("AttributeError")
    ELSE Ok(SelectSeq(df.rows, LAMBDA r : NotNA(Cell(r, DATE_TIME))
                                 /\ Val(Cell(r, DATE_TIME)).hour <= hour))

\* data[data[DATE_TIME].dt.hour == hour], line 35: .dt raises on a column
\* that is not datetime-like; NaT has no hour and equals none
filterByHour(df, hour) ==
    IF df.dt_dtype # "datetime64" THEN Raise("AttributeError")
    ELSE Ok(SelectSeq(df.rows, LAMBDA r : NotNA(Cell(r, DATE_TIME))
                                 /\ Val(Cell(r, DATE_TIME)).hour = hour))

\* (np.average(data_by_hour["latitude"]), np.average(...["longitude"])), line 39
midpoint(rows) ==
    <<average(Column(rows, "latitude")), average(Column(rows, "longitude"))>>

\* series.dt.minute and series.dt.hour of timestamps none of which is NaT
dt_minute(cells) == [i \in DOMAIN cells |-> Val(cells[i]).minute]
dt_hour(cells) == [i \in DOMAIN cells |-> Val(cells[i]).hour]

\* a faulty variant: a histogram whose range starts at minute 1
minuteHistogram_from1(rows) ==
    histogram(dt_minute(Column(rows, DATE_TIME)), HistBins, HistLo + 1, HistHi)

\* np.histogram(filtered[DATE_TIME].dt.minute, bins=60, range=(0, 60))[0], line 65
minuteHistogram(rows) ==
    histogram(dt_minute(Column(rows, DATE_TIME)), HistBins, HistLo, HistHi)

\* a faulty variant: a ranking that keeps the rows without a street name
topStreets_noDropna(df, col, n, b) ==
    HeadN(sort_values_desc(project(query_ge(df.rows, col, 1),
                                   {"on_street_name", col}), col, b), n)

\* data.query("<col> >= 1")[["on_street_name", col]]
\*     .sort_values(by=col, ascending=False).dropna(how="any")[:5], lines 75-82
topStreets(df, col, n, b) ==
    HeadN(dropna(sort_values_desc(project(query_ge(df.rows, col, 1),
                                          {"on_street_name", col}), col, b),
                 {"on_street_name", col}), n)

Categories == {"Pedestrians", "Cyclists", "Motorists"}

\* the if / elif / else on select, lines 74-82
CategoryColumn(select) ==
    IF select = "Pedestrians" THEN "number_of_pedestrians_injured"
    ELSE IF select = "Cyclists" THEN "number_of_cyclist_injured"
    ELSE "number_of_motorist_injured"

topStreetsByCategory(df, select, b) ==
    Ok(topStreets(df, CategoryColumn(select), TopStreetsN, b))

(***************************************************************************)
(* The aggregation layer, lines 87-144.                                    *)
(***************************************************************************)
RECURSIVE CountsFrom(_, _, _)
CountsFrom(h, last, hours) ==
    IF h > last THEN <<>>
    ELSE (IF Count(hours, h) > 0 THEN <<[hour |-> h, count |-> Count(hours, h)]>>
          ELSE <<>>) \o CountsFrom(h + 1, last, hours)

\* data.groupby(data[DATE_TIME].dt.hour).size(), line 87: one entry per hour
\* that occurs, by hour ascending; rows without a timestamp are in no group
hourlyCounts(df) ==
    IF df.dt_dtype # "datetime64" THEN Raise("AttributeError")
    ELSE Ok(CountsFrom(0, 23,
                       dt_hour(SelectSeq(Column(df.rows, DATE_TIME), NotNA))))

\* data['borough'].value_counts(), line 103
countsByBorough(df, b) ==
    value_counts(Column(df.rows, "borough"), b)

LexLess(p, q) == p[1] < q[1] \/ (p[1] = q[1] /\ p[2] < q[2])

RECURSIVE SortedSites(_)
SortedSites(S) ==
    IF S = {} THEN <<>>
    ELSE LET m == CHOOSE p \in S : \A q \in S \ {p} : LexLess(p, q)
         IN <<m>> \o SortedSites(S \ {m})

\* data.groupby(['latitude', 'longitude']).agg({'injured_persons': 'sum'})
\*     .reset_index(), line 117: groups by key ascending, missing not summed
Site(r) == <<Val(Cell(r, "latitude")), Val(Cell(r, "longitude"))>>

SumAt(keyed, p) ==
    SumSeq(Values(Column(SelectSeq(keyed, LAMBDA r : Site(r) = p
                                       /\ NotNA(Cell(r, "injured_persons"))),
                         "injured_persons")))

SumBySite(keyed, sites) ==
    [i \in DOMAIN sites |->
        [latitude |-> sites[i][1], longitude |-> sites[i][2],
         injured_persons |-> SumAt(keyed, sites[i])]]

severityBySite(df) ==
    SumBySite(dropna(df.rows, {"latitude", "longitude"}),
              SortedSites({Site(r) : r \in Range(dropna(df.rows,
                                                 {"latitude", "longitude"}))}))

factor_columns == <<"contributing_factor_vehicle_1", "contributing_factor_vehicle_2">>
vehicle_type_columns == <<"vehicle_type_code_1", "vehicle_type_code_2">>
numerical_features ==
    <<"number_of_persons_killed", "number_of_pedestrians_injured",
      "number_of_cyclist_injured", "number_of_motorist_injured">>

\* data[cols].stack().value_counts().head(n), lines 128 and 144
topValues(df, cols, n, b) == HeadN(value_counts(stack(df.rows, cols), b), n)

topFactors(df, b) == topValues(df, factor_columns, TopFactorsN, b)
topVehicleTypes(df, b) == topValues(df, vehicle_type_columns, TopVehiclesN, b)

\* Pearson's r of two columns over the rows where both are present, held as
\* the integer terms of its formula, r = num / sqrt(dx * dy); missing when a
\* column has no variance there
Dot(xs, ys) == SumSeq([i \in DOMAIN xs |-> xs[i] * ys[i]])

\* n * sum(x * y) - sum(x) * sum(y)
CoMoment(xs, ys) == Len(xs) * Dot(xs, ys) - SumSeq(xs) * SumSeq(ys)

Pearson(num, dx, dy) ==
    IF dx = 0 \/ dy = 0 THEN Missing ELSE Some([num |-> num, dx |-> dx, dy |-> dy])

PearsonOf(xs, ys) == Pearson(CoMoment(xs, ys), CoMoment(xs, xs), CoMoment(ys, ys))

corr_pair(rows, x, y) ==
    PearsonOf(Values(Column(dropna(rows, {x, y}), x)),
              Values(Column(dropna(rows, {x, y}), y)))

\* data[numerical_features].corr(), line 136
correlationMatrix(df) ==
    [i \in DOMAIN numerical_features |->
        [j \in DOMAIN numerical_features |->
            corr_pair(df.rows, numerical_features[i], numerical_features[j])]]

(***************************************************************************)
(* The script body, lines 21-152.  Each statement that reads the frame     *)
(* named data is a step [data |-> the frame after it, out |-> what it      *)
(* wrote]: data is the cached object itself, so a change made to it in     *)
(* place would be a change of the cache.                                   *)
(***************************************************************************)
Step(df, out) == [data |-> df, out |-> out]

\* nothing written: every view of the page is <<>> until its statement runs
NoOutputs ==
    [err |-> "", from_cache |-> FALSE, map |-> <<>>, hours_text |-> <<>>,
     midpoint |-> <<>>, layer |-> <<>>, hist |-> <<>>, top_streets |-> <<>>,
     hourly |-> <<>>, boroughs |-> <<>>, severity |-> <<>>, factors |-> <<>>,
     corr |-> <<>>, vehicles |-> <<>>, raw |-> <<>>]

\* line 30
st_map(df, out, w) ==
    Step(df, [out EXCEPT !.map = Some(injured_map(df, w.injured_people))])

\* a faulty variant: a histogram view that adds to the one the previous run
\* wrote in place of recomputing it
hour_views_incremental(by_hour, df, out, w) ==
    IF by_hour.err # "" THEN Step(df, [out EXCEPT !.err = by_hour.err])
    ELSE Step(df, [out EXCEPT
            !.hours_text = Some(<<w.hour, (w.hour + 1) % 24>>),
            !.midpoint = Some(midpoint(by_hour.val)),
            !.layer = Some(project(by_hour.val, {DATE_TIME, "latitude", "longitude"})),
            !.hist = Some(IF NotNA(outputs.hist)
                          THEN [k \in 1..HistBins |->
                                   Val(outputs.hist)[k] + minuteHistogram(by_hour.val)[k]]
                          ELSE minuteHistogram(by_hour.val))])

\* lines 35-68: data_by_hour and its views
hour_views(by_hour, df, out, w) ==
    IF by_hour.err # "" THEN Step(df, [out EXCEPT !.err = by_hour.err])
    ELSE Step(df, [out EXCEPT
            !.hours_text = Some(<<w.hour, (w.hour + 1) % 24>>),
            !.midpoint = Some(midpoint(by_hour.val)),
            !.layer = Some(project(by_hour.val, {DATE_TIME, "latitude", "longitude"})),
            !.hist = Some(minuteHistogram(by_hour.val))])

st_by_hour(df, out, w) == hour_views(filterByHour(df, w.hour), df, out, w)

\* a faulty variant: a ranking that drops the rows without a street name
\* from data itself
st_top_streets_inplace(df, out, w, b) ==
    Step([df EXCEPT !.rows = dropna(df.rows, {"on_street_name"})],
         [out EXCEPT !.top_streets = Some(topStreetsByCategory(df, w.select, b).val)])

\* lines 74-82
st_top_streets(df, out, w, b) ==
    Step(df, [out EXCEPT
                !.top_streets = Some(topStreetsByCategory(df, w.select, b).val)])

\* line 87
hourly_view(counts, df, out) ==
    IF counts.err # "" THEN Step(df, [out EXCEPT !.err = counts.err])
    ELSE Step(df, [out EXCEPT !.hourly = Some(counts.val)])

st_hourly(df, out) == hourly_view(hourlyCounts(df), df, out)

\* line 103
st_boroughs(df, out, b) ==
    Step(df, [out EXCEPT !.boroughs = Some(countsByBorough(df, b))])

\* line 117
st_severity(df, out) == Step(df, [out EXCEPT !.severity = Some(severityBySite(df))])

\* line 128
st_factors(df, out, b) == Step(df, [out EXCEPT !.factors = Some(topFactors(df, b))])

\* line 136
st_corr(df, out) == Step(df, [out EXCEPT !.corr = Some(correlationMatrix(df))])

\* line 144
st_vehicles(df, out, b) ==
    Step(df, [out EXCEPT !.vehicles = Some(topVehicleTypes(df, b))])

\* if st.checkbox("Show Raw Data", False): st.write(data), lines 150-152
st_raw(df, out, w) ==
    Step(df, [out EXCEPT !.raw = IF w.show_raw THEN Some(df) ELSE Missing])

\* the statements of the script that read data, in the order they run
Statements ==
    <<"map", "by_hour", "top_streets", "hourly", "boroughs", "severity",
      "factors", "corr", "vehicles", "raw">>

Statement(name, df, out, w, b) ==
    CASE name = "map" -> st_map(df, out, w)
      [] name = "by_hour" -> st_by_hour(df, out, w)
      [] name = "top_streets" -> st_top_streets(df, out, w, b)
      [] name = "hourly" -> st_hourly(df, out)
      [] name = "boroughs" -> st_boroughs(df, out, b)
      [] name = "severity" -> st_severity(df, out)
      [] name = "factors" -> st_factors(df, out, b)
      [] name = "corr" -> st_corr(df, out)
      [] name = "vehicles" -> st_vehicles(df, out, b)
      [] name = "raw" -> st_raw(df, out, w)

\* the statements from the i-th on; an exception ends the run where it is raised
RECURSIVE RunFrom(_, _, _, _)
RunFrom(i, st, w, b) ==
    IF i > Len(Statements) \/ st.out.err # "" THEN st
    ELSE RunFrom(i + 1, Statement(Statements[i], st.data, st.out, w, b), w, b)

\* lines 27-152 on the frame load_data returned
script_views(df, w, b, hit) ==
    RunFrom(1, Step(df, [NoOutputs EXCEPT !.from_cache = hit]), w, b)

\* lines 27-152 after load_data() returned ld
after_views(ld, v) ==
    [cache |-> Some(v.data), reads |-> ld.reads, loaded |-> Some(ld.data),
     out |-> v.out]

after_load(ld, w, b) ==
    IF ld.err # ""
    THEN [cache |-> ld.cache, reads |-> ld.reads, loaded |-> Missing,
          out |-> [NoOutputs EXCEPT !.err = ld.err]]
    ELSE after_views(ld, script_views(ld.data, w, b, ld.hit))

\* one run of the script: load_data() at line 21, then the views; an
\* exception ends the run where it is raised
script(c, f, b, n, w) == after_load(load_data(c, f, b, n), w, b)

(***************************************************************************)
(* The input file.  The loader reads crash_date, crash_time, latitude and  *)
(* longitude by these exact names before it lower-cases the header; the    *)
(* other names are read after, so the file may spell them in upper case.   *)
(***************************************************************************)
Spell(header, col) ==
    IF header = "mixed" /\ col = "borough" THEN "BOROUGH"
    ELSE IF header = "mixed" /\ col = "on_street_name" THEN "ON_STREET_NAME"
    ELSE col

RawRow(date, time, lat, lon, inj, ped, cyc, mot, killed, boro, street, f1, f2, v1, v2) ==
    [crash_date |-> date, crash_time |-> time, latitude |-> lat,
     longitude |-> lon, injured_persons |-> inj,
     number_of_pedestrians_injured |-> ped, number_of_cyclist_injured |-> cyc,
     number_of_motorist_injured |-> mot, number_of_persons_killed |-> killed,
     borough |-> boro, on_street_name |-> street,
     contributing_factor_vehicle_1 |-> f1, contributing_factor_vehicle_2 |-> f2,
     vehicle_type_code_1 |-> v1, vehicle_type_code_2 |-> v2]

At(h, m) == Some([hour |-> h, minute |-> m])

CsvFile(header, rows) ==
    [ok |-> TRUE,
     columns |-> {Spell(header, col) : col \in RawColumns},
     rows |-> [i \in DOMAIN rows |->
                 [k \in {Spell(header, col) : col \in RawColumns} |->
                     rows[i][CHOOSE col \in RawColumns : Spell(header, col) = k]]]]

NoFile == [ok |-> FALSE, columns |-> {}, rows |-> <<>>]

Builds == [dateFallback : {"NaT", "object"}, sortTies : {"original", "reversed"}]

\* rows of the dashboard's input files
FileRowPool ==
    { RawRow(Some("d1"), At(0, 5), Some(40), Some(73), Some(2), Some(1), Some(0),
             Some(1), Some(0), Some("BRONX"), Some("MAIN ST"), Some("F1"),
             Some("F2"), Some("V1"), Missing),
      RawRow(Some("d2"), At(23, 59), Some(40), Some(73), Some(0), Some(0), Some(0),
             Some(0), Some(1), Some("QUEENS"), Missing, Some("F2"), Missing,
             Some("V2"), Some("V1")),
      RawRow(Some("d1"), At(10, 30), Missing, Some(73), Some(5), Some(2), Some(2),
             Some(1), Some(0), Some("BRONX"), Some("BROADWAY"), Missing, Missing,
             Missing, Missing),
      RawRow(Some("d3"), At(10, 0), Some(41), Missing, Some(1), Some(1), Some(0),
             Some(0), Some(0), Missing, Some("MAIN ST"), Some("F1"), Missing,
             Some("V1"), Missing),
      RawRow(Some("d2"), Missing, Some(41), Some(74), Missing, Some(1), Missing,
             Some(3), Some(2), Some("QUEENS"), Some("BROADWAY"), Some("F1"),
             Some("F1"), Some("V2"), Some("V2")) }

Files ==
    {NoFile} \cup {CsvFile(h, rows) : h \in {"lower", "mixed"},
                                     rows \in SeqsUpTo(FileRowPool, MaxFileRows)}

(***************************************************************************)
(* The session: widgets and script runs.                                   *)
(***************************************************************************)
\* st.slider(label, 0, 19), st.slider(label, 0, 23), st.selectbox(label,
\* [...]) and st.checkbox(label, False) before any interaction
DefaultWidgets ==
    [injured_people |-> SliderInjuredMin, hour |-> SliderHourMin,
     select |-> "Pedestrians", show_raw |-> FALSE]

\* the slider positions the model moves the sliders to
InjuredTried == {SliderInjuredMin, 1, SliderInjuredMax}
HoursTried == {SliderHourMin, SliderHourMax}

\* what a view depends on: the threshold, the hour and the category
Key(w) == <<w.injured_people, w.hour, w.select>>

\* the views of a run other than the raw-data display
Views(out) == [out EXCEPT !.raw = <<>>, !.from_cache = FALSE]

Init ==
    /\ file \in Files
    /\ build \in Builds
    /\ cache = <<>>
    /\ reads = 0
    /\ widgets = DefaultWidgets
    /\ started = FALSE
    /\ outputs = NoOutputs
    /\ firstTable = <<>>
    /\ probe = <<>>
    /\ qin = <<>>
    /\ qout = <<>>

\* a run of the script with the widgets at w.  probe keeps the first run's
\* widget values and views.
Run(w) ==
    \E r \in {script(cache, file, build, reads, w)} :
       /\ widgets' = w
       /\ started' = TRUE
       /\ cache' = r.cache
       /\ reads' = r.reads
       /\ outputs' = r.out
       /\ firstTable' = IF IsNA(firstTable) THEN r.loaded ELSE firstTable
       /\ probe' = IF started THEN probe
                   ELSE Some([key |-> Key(w), views |-> Views(r.out)])
       /\ UNCHANGED <<file, build, qin, qout>>

\* the browser opens the page: the first run, with every widget at its default
SessionStart ==
    /\ ~started
    /\ Run(DefaultWidgets)

\* a widget is on the page once the run reached its statement
SlidersShown == started /\ outputs.err # "LoadError"
AllShown == started /\ outputs.err = ""

MoveInjuredSlider ==
    /\ SlidersShown
    /\ \E t \in InjuredTried \ {widgets.injured_people} :
          Run([widgets EXCEPT !.injured_people = t])

MoveHourSlider ==
    /\ SlidersShown
    /\ \E h \in HoursTried \ {widgets.hour} : Run([widgets EXCEPT !.hour = h])

SelectClass ==
    /\ AllShown
    /\ \E s \in Categories \ {widgets.select} : Run([widgets EXCEPT !.select = s])

ToggleRaw ==
    /\ AllShown
    /\ Run([widgets EXCEPT !.show_raw = ~widgets.show_raw])

Next ==
    \/ SessionStart
    \/ MoveInjuredSlider
    \/ MoveHourSlider
    \/ SelectClass
    \/ ToggleRaw

Spec == Init /\ [][Next]_vars

(***************************************************************************)
(* The query layer called on its own: the frame is one load_data returns,  *)
(* each action is one call and qout its result.                            *)
(***************************************************************************)
PlainRow(time, lat, inj) ==
    RawRow(Some("d1"), time, lat, Some(73), inj, Some(0), Some(0), Some(0),
           Some(0), Some("BRONX"), Some("MAIN ST"), Missing, Missing, Missing,
           Missing)

QueryRowPool ==
    { PlainRow(At(10, 0), Some(40), Some(0)),
      PlainRow(At(10, 59), Some(40), Some(2)),
      PlainRow(At(14, 30), Some(41), Some(5)),
      PlainRow(At(10, 59), Some(41), Missing),
      PlainRow(Missing, Some(40), Some(19)),
      PlainRow(At(23, 0), Missing, Some(3)) }

NoCall == [op |-> "none", arg |-> 0, res |-> Ok(<<>>)]

InitHarness(pool, n, builds, none) ==
    /\ file \in {CsvFile("lower", rows) : rows \in SeqsUpTo(pool, n)}
    /\ build \in builds
    /\ cache = <<>>
    /\ reads = 0
    /\ widgets = DefaultWidgets
    /\ started = FALSE
    /\ outputs = NoOutputs
    /\ firstTable = <<>>
    /\ probe = <<>>
    /\ qin = load_data_body(file, build).val
    /\ qout = none

Harness == UNCHANGED <<file, build, cache, reads, widgets, started, outputs,
                       firstTable, probe, qin>>

InitQuery ==
    InitHarness(QueryRowPool, MaxFilterRows,
                {b \in Builds : b.sortTies = "original"}, NoCall)

\* a behaviour of the harness is one call
CallFilterByMinInjured ==
    /\ qout.op = "none"
    /\ \E t \in SliderInjuredMin..SliderInjuredMax :
          qout' = [op |-> "filterByMinInjured", arg |-> t,
                   res |-> Ok(filterByMinInjured(qin, t))]
    /\ Harness

\* filterByHour for every hour of the slider
CallFilterByHour ==
    /\ qout.op = "none"
    /\ qout' = [op |-> "filterByHour", arg |-> 0,
                res |-> Ok([h \in SliderHourMin..SliderHourMax |-> filterByHour(qin, h)])]
    /\ Harness

HistOf(by_hour) ==
    IF by_hour.err # "" THEN by_hour
    ELSE Ok([rows |-> by_hour.val, hist |-> minuteHistogram(by_hour.val)])

CallMinuteHistogram ==
    /\ qout.op = "none"
    /\ \E h \in SliderHourMin..SliderHourMax :
          qout' = [op |-> "minuteHistogram", arg |-> h,
                   res |-> HistOf(filterByHour(qin, h))]
    /\ Harness

NextQuery ==
    \/ CallFilterByMinInjured
    \/ CallFilterByHour
    \/ CallMinuteHistogram

SpecQuery == InitQuery /\ [][NextQuery]_vars

StreetRow(street, ped, cyc, mot) ==
    RawRow(Some("d1"), At(10, 0), Some(40), Some(73), Some(1), ped, cyc, mot,
           Some(0), Some("BRONX"), street, Missing, Missing, Missing, Missing)

StreetRowPool ==
    { StreetRow(Some("MAIN ST"), Some(1), Some(0), Some(2)),
      StreetRow(Missing, Some(3), Some(1), Missing),
      StreetRow(Some("BROADWAY"), Some(2), Some(1), Some(2)) }

\* the labels the selectbox offers and one it does not
LabelsTried == Categories \cup {"Trucks"}

NoTopCall == [op |-> "none", arg |-> "", res |-> Ok(<<>>)]

InitTop ==
    InitHarness(StreetRowPool, MaxQueryRows,
                {b \in Builds : b.dateFallback = "NaT"}, NoTopCall)

CallTopStreets ==
    /\ qout.op = "none"
    /\ \E label \in LabelsTried :
          qout' = [op |-> "topStreetsByCategory", arg |-> label,
                   res |-> topStreetsByCategory(qin, label, build)]
    /\ Harness

NextTop == CallTopStreets

SpecTop == InitTop /\ [][NextTop]_vars

(***************************************************************************)
(* Properties.                                                             *)
(***************************************************************************)
Loaded == NotNA(cache)
Table == Val(cache)

RawMissingCoord(raw) == IsNA(raw["latitude"]) \/ IsNA(raw["longitude"])

\* C1: once load() has completed, every record of the table has a latitude
\* and a longitude, each the one its input row holds, and no input row that
\* misses a coordinate is in the table.
C1_CoordinatesPresent ==
    Loaded =>
        /\ \A i \in DOMAIN Table.rows :
              /\ NotNA(Cell(Table.rows[i], "latitude"))
              /\ NotNA(Cell(Table.rows[i], "longitude"))
              /\ Table.rows[i].idx + 1 \in DOMAIN file.rows
              /\ Cell(Table.rows[i], "latitude")
                    = file.rows[Table.rows[i].idx + 1]["latitude"]
              /\ Cell(Table.rows[i], "longitude")
                    = file.rows[Table.rows[i].idx + 1]["longitude"]
        /\ \A k \in DOMAIN file.rows :
              RawMissingCoord(file.rows[k])
                 => \A i \in DOMAIN Table.rows : Table.rows[i].idx # k - 1

\* C1 witness: after an interaction, a table that kept a row of a file in
\* which another row misses a coordinate
C1_Witness ==
    /\ Loaded
    /\ widgets # DefaultWidgets
    /\ Len(Table.rows) >= 1
    /\ \E k \in DOMAIN file.rows : IsNA(file.rows[k]["longitude"])

\* C2: over the reruns of a session the file is read at most once, and once
\* the table is cached every load() returns it without reading the file.
C2_LoadedOnce ==
    [][/\ reads' <= 1
       /\ Loaded => /\ cache' = cache
                    /\ reads' = reads
                    /\ outputs'.from_cache]_vars

\* C2 witness: a rerun served from the cache after the one read
C2_Witness ==
    /\ Loaded
    /\ reads = 1
    /\ outputs.from_cache
    /\ widgets # DefaultWidgets

\* C3: no step of a script run changes the rows, the row order or the column
\* names of the cached table: it stays the table the first load returned,
\* and the raw-data view shows that table.
C3_TableImmutable ==
    /\ Loaded <=> NotNA(firstTable)
    /\ Loaded =>
          /\ Table.rows = Val(firstTable).rows
          /\ Table.columns = Val(firstTable).columns
          /\ cache = firstTable
          /\ NotNA(outputs.raw) => outputs.raw = firstTable

\* C3 witness: every view was computed over a table with a row without a
\* street name, after interactions, the raw data shown
C3_Witness ==
    /\ Loaded
    /\ outputs.err = ""
    /\ outputs.from_cache
    /\ widgets.show_raw
    /\ widgets.select # "Pedestrians"
    /\ \E i \in DOMAIN Table.rows : IsNA(Cell(Table.rows[i], "on_street_name"))
    /\ Len(Val(outputs.top_streets)) >= 1

Injured(r) == Cell(r, "injured_persons")
Indexes(rows) == {rows[i].idx : i \in DOMAIN rows}
Increasing(rows) ==
    \A i, j \in DOMAIN rows : i < j => rows[i].idx < rows[j].idx

\* C4: filterByMinInjured(table, t), t in 0..19, returns exactly the rows of
\* the table whose injured count is >= t, in the table's order.
C4_FilterByMinInjured ==
    qout.op = "filterByMinInjured" =>
        /\ qout.arg \in SliderInjuredMin..SliderInjuredMax
        /\ \A i \in DOMAIN qout.res.val :
              /\ qout.res.val[i] \in Range(qin.rows)
              /\ NotNA(Injured(qout.res.val[i]))
              /\ Val(Injured(qout.res.val[i])) >= qout.arg
        /\ \A i \in DOMAIN qin.rows :
              NotNA(Injured(qin.rows[i])) /\ Val(Injured(qin.rows[i])) >= qout.arg
                 => qin.rows[i] \in Range(qout.res.val)
        /\ Increasing(qout.res.val)

\* C4 witness: a call that keeps a row whose count is the threshold and
\* drops a row below it
C4_Witness ==
    /\ qout.op = "filterByMinInjured"
    /\ \E i \in DOMAIN qout.res.val : Val(Injured(qout.res.val[i])) = qout.arg
    /\ Len(qout.res.val) >= 2
    /\ Len(qout.res.val) < Len(qin.rows)

HourOf(r) == Val(Cell(r, DATE_TIME)).hour
MinuteOf(r) == Val(Cell(r, DATE_TIME)).minute
Hours == SliderHourMin..SliderHourMax
Bucket(h) == qout.res.val[h]
BucketsOf(r) == {h \in Hours : Bucket(h).err = "" /\ r \in Range(Bucket(h).val)}

C6_MinuteHistogram ==
    qout.op = "minuteHistogram" /\ qout.res.err = "" =>
        /\ Len(qout.res.val.hist) = 60
        /\ SumSeq(qout.res.val.hist) = Len(qout.res.val.rows)
        /\ \A m \in 0..59 :
              qout.res.val.hist[m + 1] =
                 Cardinality({i \in DOMAIN qout.res.val.rows :
                                 MinuteOf(qout.res.val.rows[i]) = m})

\* C6 witness: an hour with rows at minute 0 and at minute 59
C6_Witness ==
    /\ qout.op = "minuteHistogram"
    /\ qout.res.err = ""
    /\ qout.res.val.hist[1] >= 1
    /\ qout.res.val.hist[60] >= 1
    /\ Len(qout.res.val.rows) = 3

TopColumn == CategoryColumn(qout.arg)
TopCount(r) == Val(Cell(r, TopColumn))
Qualifying(r) == NotNA(Cell(r, TopColumn)) /\ Val(Cell(r, TopColumn)) >= 1
Named(r) == NotNA(Cell(r, "on_street_name"))
TopCall == qout.op = "topStreetsByCategory" /\ qout.arg \in Categories
LeftOut(r) == r.idx \notin Indexes(qout.res.val)

\* what C7 and its amendment share: the result is sorted non-increasing by
\* the category's count, has at most n rows, and each is a row of the table
\* with count >= 1 and a street name
TopStreetsShape ==
    /\ qout.res.err = ""
    /\ Len(qout.res.val) <= TopStreetsN
    /\ \A i, j \in DOMAIN qout.res.val :
          i < j => TopCount(qout.res.val[i]) >= TopCount(qout.res.val[j])
    /\ \A i \in DOMAIN qout.res.val :
          /\ DOMAIN qout.res.val[i].c = {"on_street_name", TopColumn}
          /\ Named(qout.res.val[i])
          /\ TopCount(qout.res.val[i]) >= 1
          /\ \E k \in DOMAIN qin.rows :
                /\ qin.rows[k].idx = qout.res.val[i].idx
                /\ Cell(qin.rows[k], TopColumn) = Cell(qout.res.val[i], TopColumn)
                /\ Cell(qin.rows[k], "on_street_name")
                      = Cell(qout.res.val[i], "on_street_name")
    /\ \A i, j \in DOMAIN qout.res.val :
          i # j => qout.res.val[i].idx # qout.res.val[j].idx

EnoughNamed ==
    Cardinality({k \in DOMAIN qin.rows :
                    Qualifying(qin.rows[k]) /\ Named(qin.rows[k])}) >= TopStreetsN

\* C7 as claimed: when n qualifying rows with a street name exist, no
\* qualifying row left out has a larger count than a row of the result.
C7_Claimed_TopStreets ==
    TopCall =>
        /\ TopStreetsShape
        /\ EnoughNamed =>
              \A k \in DOMAIN qin.rows, i \in DOMAIN qout.res.val :
                 Qualifying(qin.rows[k]) /\ LeftOut(qin.rows[k])
                    => TopCount(qin.rows[k]) <= TopCount(qout.res.val[i])

\* C7: the result of topStreetsByCategory is sorted non-increasing by the
\* category's count, has at most n = 5 rows, each with count >= 1 and a
\* street name; no qualifying row with a street name that is left out has a
\* larger count than a row of the result.
C7_TopStreets ==
    TopCall =>
        /\ TopStreetsShape
        /\ \A k \in DOMAIN qin.rows, i \in DOMAIN qout.res.val :
              Qualifying(qin.rows[k]) /\ Named(qin.rows[k]) /\ LeftOut(qin.rows[k])
                 => TopCount(qin.rows[k]) <= TopCount(qout.res.val[i])

\* C7 witness: six qualifying rows with a street name, of two counts, one
\* left out
C7_Witness ==
    /\ TopCall
    /\ Len(qin.rows) = 6
    /\ \A k \in DOMAIN qin.rows : Qualifying(qin.rows[k]) /\ Named(qin.rows[k])
    /\ Len(qout.res.val) = TopStreetsN
    /\ TopCount(qout.res.val[1]) > TopCount(qout.res.val[TopStreetsN])

\* C8 as claimed: of two rows of the result with the same count, the one
\* that is earlier in the table is earlier in the result, and a row of that
\* count left out by the cut is later in the table than those kept.
C8_Claimed_StableTies ==
    TopCall =>
        /\ \A i, j \in DOMAIN qout.res.val :
              i < j /\ TopCount(qout.res.val[i]) = TopCount(qout.res.val[j])
                 => qout.res.val[i].idx < qout.res.val[j].idx
        /\ \A k \in DOMAIN qin.rows, i \in DOMAIN qout.res.val :
              /\ Qualifying(qin.rows[k]) /\ Named(qin.rows[k])
              /\ LeftOut(qin.rows[k])
              /\ TopCount(qin.rows[k]) = TopCount(qout.res.val[i])
              => qout.res.val[i].idx < qin.rows[k].idx

====
